---------------------------- MODULE Spec2Model ----------------------------
(***************************************************************************)
(* Model of src/ai_studio_code.py (NeuroLearn AI, a Streamlit script).     *)
(*                                                                         *)
(* Python strings that the code slices, splits or searches are modelled as *)
(* sequences of one-character strings, so that split / replace / "in" are  *)
(* computed the way Python computes them.  Strings that the code only      *)
(* passes around (labels, messages) stay TLA+ strings.                     *)
(***************************************************************************)
EXTENDS Integers, Sequences, FiniteSets, TLC

VARIABLES
    start_date,    \* generate_schedule argument: [y, m, d, hour]
    difficulty,    \* generate_schedule argument
    schedule,      \* rows returned by generate_schedule (<<>> before the call)
    url,           \* get_youtube_transcript argument (characters)
    yt_out,        \* outcome of get_youtube_transcript
    api_key,       \* sidebar text_input value (characters)
    pdf_file,      \* file_uploader value
    yt_url,        \* tab2 text_input value (characters)
    raw_text,      \* tab3 text_area value (characters)
    page           \* what the last script run did and rendered

vars == <<start_date, difficulty, schedule, url, yt_out,
          api_key, pdf_file, yt_url, raw_text, page>>

(***************************************************************************)
(* Python str primitives on character sequences                            *)
(***************************************************************************)

\* s[i:i+len(p)] == p
MatchAt(s, p, i) ==
    /\ i >= 1
    /\ i + Len(p) - 1 <= Len(s)
    /\ \A k \in 1..Len(p) : s[i + k - 1] = p[k]

\* str.find(p, from): lowest index >= from where p occurs, 0 when absent
Find(s, p, from) ==
    LET hits == {i \in from..(Len(s) - Len(p) + 1) : MatchAt(s, p, i)}
    IN  IF hits = {} THEN 0 ELSE CHOOSE i \in hits : \A j \in hits : i <= j

\* p in s
Contains(s, p) == Find(s, p, 1) # 0

\* s[a:b] with 1-based inclusive bounds, empty when a > b
Slice(s, a, b) == IF a > b THEN <<>> ELSE SubSeq(s, a, b)

\* s.split(sep), sep non-empty
RECURSIVE Split(_, _)
Split(s, sep) ==
    LET i == Find(s, sep, 1)
    IN  IF i = 0 THEN <<s>>
        ELSE <<Slice(s, 1, i - 1)>> \o Split(Slice(s, i + Len(sep), Len(s)), sep)

\* s.replace(old, new), old non-empty: leftmost non-overlapping occurrences
RECURSIVE Replace(_, _, _)
Replace(s, old, new) ==
    LET i == Find(s, old, 1)
    IN  IF i = 0 THEN s
        ELSE Slice(s, 1, i - 1) \o new
             \o Replace(Slice(s, i + Len(old), Len(s)), old, new)

\* the decimal digits of a natural number, as str(n) / f"{n}" writes them
DigitChar(d) == <<"0", "1", "2", "3", "4", "5", "6", "7", "8", "9">>[d + 1]

RECURSIVE NatToChars(_)
NatToChars(n) ==
    IF n < 10 THEN <<DigitChar(n)>>
    ELSE NatToChars(n \div 10) \o <<DigitChar(n % 10)>>

\* %Y / %m / %d of strftime: zero padded to the field width
RECURSIVE ZeroPad(_, _)
ZeroPad(cs, width) == IF Len(cs) >= width THEN cs ELSE ZeroPad(<<"0">> \o cs, width)

(***************************************************************************)
(* datetime arithmetic: start_date + timedelta(days=interval), strftime    *)
(***************************************************************************)

IsLeap(y) == y % 4 = 0 /\ (y % 100 # 0 \/ y % 400 = 0)

DaysInMonth(y, m) ==
    IF m = 2 THEN (IF IsLeap(y) THEN 29 ELSE 28)
    ELSE IF m \in {4, 6, 9, 11} THEN 30 ELSE 31

\* days in the years before year y (proleptic Gregorian ordinal base)
DaysBeforeYear(y) ==
    LET p == y - 1 IN p * 365 + p \div 4 - p \div 100 + p \div 400

RECURSIVE DaysBeforeMonth(_, _)
DaysBeforeMonth(y, m) ==
    IF m = 1 THEN 0 ELSE DaysBeforeMonth(y, m - 1) + DaysInMonth(y, m - 1)

\* date.toordinal()
Ymd2Ord(y, m, d) == DaysBeforeYear(y) + DaysBeforeMonth(y, m) + d

\* date.fromordinal(n): the year, then the month, then the day containing n
Ord2Ymd(n) ==
    LET y0 == (n * 400) \div 146097 + 1
        y  == IF DaysBeforeYear(y0) >= n THEN y0 - 1
              ELSE IF DaysBeforeYear(y0 + 1) < n THEN y0 + 1 ELSE y0
        r  == n - DaysBeforeYear(y)
        m  == CHOOSE k \in 1..12 :
                 /\ DaysBeforeMonth(y, k) < r
                 /\ r <= DaysBeforeMonth(y, k) + DaysInMonth(y, k)
    IN  [y |-> y, m |-> m, d |-> r - DaysBeforeMonth(y, m)]

\* datetime + timedelta(days=n): the calendar date moves, the time of day stays
AddDays(dt, n) ==
    LET c == Ord2Ymd(Ymd2Ord(dt.y, dt.m, dt.d) + n)
    IN  [y |-> c.y, m |-> c.m, d |-> c.d, hour |-> dt.hour]

\* dt.strftime("%Y-%m-%d")
Strftime(dt) ==
    ZeroPad(NatToChars(dt.y), 4) \o <<"-">> \o ZeroPad(NatToChars(dt.m), 2)
        \o <<"-">> \o ZeroPad(NatToChars(dt.d), 2)


(***************************************************************************)
(* generate_schedule                                                       *)
(***************************************************************************)

\* the other repetition table seen in the wild; not the one this file uses
intervals_stretched == <<0, 1, 3, 7, 16, 35>>

intervals == <<0, 1, 3, 7, 14, 30>>

methods_easy ==
    <<"Review Summary", "Active Recall", "Practice Quiz", "Relate to other topics">>

methods_hard ==
    <<"Feynman Technique", "Blurting Method", "Interleaved Practice",
      "Detailed Mind Map">>

\* the branch taken with the boundary score on the wrong side
method_list_inclusive(d) == IF d >= 6 THEN methods_hard ELSE methods_easy

\* method_list = methods_hard if difficulty > 6 else methods_easy
method_list(d) == IF d > 6 THEN methods_hard ELSE methods_easy

\* the if / elif / else on the session index i (0-based)
focus(i) ==
    IF i = 0 THEN "Encoding: Break down and understand."
    ELSE IF i = 1 THEN "Retrieval: Force memory without notes."
    ELSE "Application: Use the knowledge."

\* one pass of the loop body, i the 0-based enumerate index
schedule_row(start, d, i) ==
    LET interval == intervals[i + 1]
        date     == AddDays(start, interval)
        ml       == method_list(d)
    IN  [Review_Session |-> i + 1,
         Date           |-> Strftime(date),
         Interval       |-> <<"+">> \o NatToChars(interval)
                                \o <<" ", "d", "a", "y", "s">>,
         Method         |-> ml[(i % Len(ml)) + 1],
         Focus          |-> focus(i)]

\* the rows of the returned DataFrame, in append order
generate_schedule(start, d) ==
    [k \in 1..Len(intervals) |-> schedule_row(start, d, k - 1)]

(***************************************************************************)
(* get_youtube_transcript                                                  *)
(***************************************************************************)

None == [none |-> TRUE]
Some(v) == [none |-> FALSE, v |-> v]

Chars_v_eq == <<"v", "=">>
Chars_amp == <<"&">>
Chars_youtu_be == <<"y", "o", "u", "t", "u", ".", "b", "e", "/">>

\* the short form tested first, which the long form then never overrides
extract_video_id_short_first(u) ==
    IF Contains(u, Chars_youtu_be) THEN Some(Split(u, Chars_youtu_be)[2])
    ELSE IF Contains(u, Chars_v_eq)
         THEN Some(Split(Split(u, Chars_v_eq)[2], Chars_amp)[1])
         ELSE None

\* the "# Extract Video ID" if / elif / else; None is the else branch
extract_video_id(u) ==
    IF Contains(u, Chars_v_eq)
    THEN Some(Split(Split(u, Chars_v_eq)[2], Chars_amp)[1])
    ELSE IF Contains(u, Chars_youtu_be)
         THEN Some(Split(u, Chars_youtu_be)[2])
         ELSE None

\* What YouTubeTranscriptApi.get_transcript and the formatter can do for one
\* call: return a formatted text (possibly empty), or raise with a message
\* (str(e), possibly empty).
TranscriptOutcomes ==
    { [ok |-> TRUE,  text |-> <<"h", "i">>, msg |-> ""],
      [ok |-> TRUE,  text |-> <<>>,         msg |-> ""],
      [ok |-> FALSE, text |-> <<>>,         msg |-> "Subtitles are disabled"],
      [ok |-> FALSE, text |-> <<>>,         msg |-> ""] }

\* the (text, error) pair returned, with the provider call it made
get_youtube_transcript(u, outcome) ==
    LET vid == extract_video_id(u)
    IN  IF vid.none
        THEN [text |-> None, error |-> Some("Invalid YouTube URL"),
              called |-> FALSE, video_id |-> None]
        ELSE IF outcome.ok
             THEN [text |-> Some(outcome.text), error |-> None,
                   called |-> TRUE, video_id |-> vid]
             ELSE [text |-> None, error |-> Some(outcome.msg),
                   called |-> TRUE, video_id |-> vid]

\* Python truthiness of an optional string: None and "" are false
Truthy(opt) == ~opt.none /\ opt.v # <<>>
TruthyMsg(opt) == ~opt.none /\ opt.v # ""


(***************************************************************************)
(* json.loads on the texts the model can answer with: objects, arrays,     *)
(* strings without escapes, integers, surrounded by JSON whitespace.       *)
(* A parsed value is tagged with its Python type.                          *)
(***************************************************************************)

JNull    == [t |-> "null", n |-> 0, s |-> <<>>, kv |-> <<>>, items |-> <<>>]
JInt(n)  == [t |-> "int",  n |-> n, s |-> <<>>, kv |-> <<>>, items |-> <<>>]
JStr(s)  == [t |-> "str",  n |-> 0, s |-> s,    kv |-> <<>>, items |-> <<>>]
JObj(kv) == [t |-> "dict", n |-> 0, s |-> <<>>, kv |-> kv,   items |-> <<>>]
JArr(xs) == [t |-> "list", n |-> 0, s |-> <<>>, kv |-> <<>>, items |-> xs]

ParseFail == [ok |-> FALSE, val |-> JNull, next |-> 0]
ParseOk(v, next) == [ok |-> TRUE, val |-> v, next |-> next]

IsWs(c) == c \in {" ", "\n"}
IsDigit(c) == c \in {"0", "1", "2", "3", "4", "5", "6", "7", "8", "9"}
DigitVal(c) == CHOOSE d \in 0..9 : DigitChar(d) = c

RECURSIVE SkipWs(_, _)
SkipWs(s, i) == IF i <= Len(s) /\ IsWs(s[i]) THEN SkipWs(s, i + 1) ELSE i

\* s[i] is the opening quote; no escape sequences occur in the model's texts
ParseString(s, i) ==
    LET j == Find(s, <<"\"">>, i + 1)
    IN  IF i > Len(s) \/ s[i] # "\"" \/ j = 0 THEN ParseFail
        ELSE ParseOk(JStr(Slice(s, i + 1, j - 1)), j + 1)

RECURSIVE DigitsEnd(_, _)
DigitsEnd(s, i) == IF i <= Len(s) /\ IsDigit(s[i]) THEN DigitsEnd(s, i + 1) ELSE i

RECURSIVE DigitsToNat(_)
DigitsToNat(cs) ==
    IF cs = <<>> THEN 0
    ELSE 10 * DigitsToNat(SubSeq(cs, 1, Len(cs) - 1)) + DigitVal(cs[Len(cs)])

\* s[i] is a digit: a lone 0, or a run of digits not starting with 0
ParseInt(s, i) ==
    IF s[i] = "0" THEN ParseOk(JInt(0), i + 1)
    ELSE LET e == DigitsEnd(s, i) IN ParseOk(JInt(DigitsToNat(Slice(s, i, e - 1))), e)

\* The recursive descent, one operator for its three positions: at "value"
\* s[i] starts a value; at "members" s[i] must start a member's key and acc
\* holds the members read so far; at "elements" s[i] must start an array
\* element and acc holds the elements read so far.
RECURSIVE ParseAt(_, _, _, _)
ParseAt(what, s, i, acc) ==
    IF what = "value"
    THEN IF i > Len(s) THEN ParseFail
         ELSE IF s[i] = "{"
              THEN LET j == SkipWs(s, i + 1)
                   IN  IF j <= Len(s) /\ s[j] = "}" THEN ParseOk(JObj(<<>>), j + 1)
                       ELSE ParseAt("members", s, j, <<>>)
         ELSE IF s[i] = "["
              THEN LET j == SkipWs(s, i + 1)
                   IN  IF j <= Len(s) /\ s[j] = "]" THEN ParseOk(JArr(<<>>), j + 1)
                       ELSE ParseAt("elements", s, j, <<>>)
         ELSE IF s[i] = "\"" THEN ParseString(s, i)
         ELSE IF IsDigit(s[i]) THEN ParseInt(s, i)
         ELSE ParseFail
    ELSE
    LET k == IF what = "members" THEN ParseString(s, i) ELSE ParseOk(JNull, i)
        c == SkipWs(s, k.next)
        colon == what = "members" /\ c <= Len(s) /\ s[c] = ":"
        v == ParseAt("value", s, IF what = "members" THEN SkipWs(s, c + 1) ELSE i,
                     <<>>)
        e == SkipWs(s, v.next)
        acc2 == IF what = "members"
                THEN Append(acc, [k |-> k.val.s, val |-> v.val])
                ELSE Append(acc, v.val)
        close == IF what = "members" THEN "}" ELSE "]"
    IN  IF what = "members" /\ (~k.ok \/ ~colon) THEN ParseFail
        ELSE IF ~v.ok THEN ParseFail
        ELSE IF e > Len(s) THEN ParseFail
        ELSE IF s[e] = close
             THEN ParseOk(IF what = "members" THEN JObj(acc2) ELSE JArr(acc2), e + 1)
        ELSE IF s[e] = "," THEN ParseAt(what, s, SkipWs(s, e + 1), acc2)
        ELSE ParseFail

ParseValue(s, i) == ParseAt("value", s, i, <<>>)

\* json.loads(s): one value, whitespace around it, nothing else; ok = FALSE
\* stands for the JSONDecodeError it raises
json_loads(s) ==
    LET v == ParseValue(s, SkipWs(s, 1))
    IN  IF v.ok /\ SkipWs(s, v.next) = Len(s) + 1 THEN v ELSE ParseFail

\* key in d
HasKey(d, key) == \E p \in 1..Len(d.kv) : d.kv[p].k = key

\* d[key]: a repeated key keeps its last value
GetKey(d, key) ==
    LET hits == {p \in 1..Len(d.kv) : d.kv[p].k = key}
    IN  d.kv[CHOOSE p \in hits : \A q \in hits : q <= p].val

\* bool(x) of a parsed value, or of None
JTruthy(x) ==
    IF x.t = "null" THEN FALSE
    ELSE IF x.t = "int" THEN x.n # 0
    ELSE IF x.t = "str" THEN x.s # <<>>
    ELSE IF x.t = "dict" THEN x.kv # <<>>
    ELSE x.items # <<>>

\* the keys the main block subscripts the analysis with
K_summary ==
    <<"s", "u", "m", "m", "a", "r", "y">>

K_difficulty_score ==
    <<"d", "i", "f", "f", "i", "c", "u", "l", "t", "y", "_", "s", "c", "o",
      "r", "e">>

K_estimated_study_time_minutes ==
    <<"e", "s", "t", "i", "m", "a", "t", "e", "d", "_", "s", "t", "u", "d",
      "y", "_", "t", "i", "m", "e", "_", "m", "i", "n", "u", "t", "e", "s">>

K_key_concepts ==
    <<"k", "e", "y", "_", "c", "o", "n", "c", "e", "p", "t", "s">>

K_learning_advice ==
    <<"l", "e", "a", "r", "n", "i", "n", "g", "_", "a", "d", "v", "i", "c",
      "e">>

\* The grave accent cannot be written inside a TLA+ string; this one element
\* stands for that one character.
Backtick == "GRAVE"

\* the two code-fence markers that analyze_with_gemini deletes
Chars_fence_json == <<Backtick, Backtick, Backtick, "j", "s", "o", "n">>

Chars_fence == <<Backtick, Backtick, Backtick>>


(***************************************************************************)
(* extract_pdf_text                                                        *)
(***************************************************************************)

\* file_uploader values: nothing uploaded, or a file that PdfReader either
\* rejects or reads as a list of page texts
NoFile == [present |-> FALSE, readable |-> FALSE, pages |-> <<>>]
PdfFile(readable, pages) == [present |-> TRUE, readable |-> readable, pages |-> pages]

\* text += page.extract_text() + "\n" over the pages
RECURSIVE JoinPages(_)
JoinPages(pages) ==
    IF pages = <<>> THEN <<>>
    ELSE Head(pages) \o <<"\n">> \o JoinPages(Tail(pages))

\* the text, or None with the st.error of the except branch
extract_pdf_text(f) ==
    IF f.readable
    THEN [text |-> Some(JoinPages(f.pages)), msgs |-> <<>>]
    ELSE [text |-> None, msgs |-> <<"error: Error reading PDF">>]

(***************************************************************************)
(* analyze_with_gemini                                                     *)
(***************************************************************************)

\* genai.GenerativeModel('gemini-1.5-flash')
MODEL_NAME == "gemini-1.5-flash"

\* {content_text[:20000]}
PromptCharLimit == 20000

Truncate(s) == IF Len(s) > PromptCharLimit THEN SubSeq(s, 1, PromptCharLimit) ELSE s

\* response.text.replace("```json", "").replace("```", "")
clean_response(text) ==
    Replace(Replace(text, Chars_fence_json, <<>>), Chars_fence, <<>>)

\* One generate_content call as the provider can answer it: g.callable says
\* whether MODEL_NAME can be called with this credential (otherwise the call
\* raises), g.ok whether the call returned a text.  The result is the parsed
\* value, or None (JNull) with the st.error of the except branch.
analyze_with_gemini(content_text, key, g) ==
    LET parsed == json_loads(clean_response(g.text))
        raised == ~g.callable \/ ~g.ok \/ ~parsed.ok
    IN  [result         |-> IF raised THEN JNull ELSE parsed.val,
         msgs           |-> IF raised THEN <<"error: AI Analysis Failed">> ELSE <<>>,
         model          |-> MODEL_NAME,
         configured_key |-> key,
         prompt_content |-> Truncate(content_text)]

(***************************************************************************)
(* the script body: one run from the top                                   *)
(***************************************************************************)

\* with tab1: the PDF, when one is uploaded
tab1_pdf(f) ==
    IF f.present
    THEN LET r == extract_pdf_text(f)
         IN  [content_text |-> r.text, source_type |-> Some("PDF Document"),
              msgs |-> r.msgs, fetched |-> FALSE]
    ELSE [content_text |-> None, source_type |-> None, msgs |-> <<>>,
          fetched |-> FALSE]

\* tab2 as it would be if a failed fetch left the earlier document in place
tab2_youtube_keep(prev, u, outcome) ==
    IF u # <<>>
    THEN LET r == get_youtube_transcript(u, outcome)
         IN  IF TruthyMsg(r.error)
             THEN [prev EXCEPT !.msgs = @ \o <<"error: Could not get video">>,
                               !.fetched = r.called]
             ELSE [content_text |-> r.text, source_type |-> Some("Video Transcript"),
                   msgs |-> prev.msgs, fetched |-> r.called]
    ELSE prev

\* with tab2: content_text is overwritten by whatever get_youtube_transcript
\* returned; source_type only when no error came back
tab2_youtube(prev, u, outcome) ==
    IF u # <<>>
    THEN LET r == get_youtube_transcript(u, outcome)
         IN  [content_text |-> r.text,
              source_type  |-> IF TruthyMsg(r.error) THEN prev.source_type
                               ELSE Some("Video Transcript"),
              msgs         |-> IF TruthyMsg(r.error)
                               THEN prev.msgs \o <<"error: Could not get video">>
                               ELSE prev.msgs,
              fetched      |-> r.called]
    ELSE prev

\* with tab3: if raw_text
tab3_text(prev, t) ==
    IF t # <<>>
    THEN [prev EXCEPT !.content_text = Some(t), !.source_type = Some("Raw Text")]
    ELSE prev

\* The "if analysis:" block.  Each subscript of the analysis, the iteration
\* over key_concepts and the comparison inside generate_schedule can raise;
\* the run then ends there, with what was drawn before it left on the page.
render_analysis(a, source_type, now) ==
    LET isdict == a.t = "dict"
        has(k) == isdict /\ HasKey(a, k)
        score  == GetKey(a, K_difficulty_score)
        ok1 == has(K_difficulty_score)
        ok2 == ok1 /\ has(K_estimated_study_time_minutes)
        ok3 == ok2 /\ has(K_summary)
        ok4 == ok3 /\ has(K_key_concepts)
                   /\ GetKey(a, K_key_concepts).t \in {"list", "str", "dict"}
        ok5 == ok4 /\ has(K_learning_advice)
        ok6 == ok5 /\ score.t = "int"
    IN  [rendered |->
            <<"success">>
            \o (IF ok1 THEN <<"metric:difficulty">> ELSE <<>>)
            \o (IF ok2 THEN <<"metric:time", "metric:source">> ELSE <<>>)
            \o (IF ok3 THEN <<"summary">> ELSE <<>>)
            \o (IF ok4 THEN <<"key_concepts">> ELSE <<>>)
            \o (IF ok5 THEN <<"learning_advice">> ELSE <<>>)
            \o (IF ok6 THEN <<"schedule">> ELSE <<>>),
         metric_difficulty |-> IF ok1 THEN score ELSE JNull,
         metric_source     |-> IF ok2 THEN source_type ELSE None,
         schedule          |-> IF ok6 THEN generate_schedule(now, score.n) ELSE <<>>,
         crashed           |-> ~ok6]

\* no transcript fetch, and no generate_content call, in a run
NoOutcome == [ok |-> FALSE, text |-> <<>>, msg |-> ""]
NoResponse == [callable |-> FALSE, ok |-> FALSE, text |-> <<>>]

\* the page of a run that st.stop ended: the warning and nothing else
StoppedPage ==
    [stopped |-> TRUE, clicked |-> FALSE, msgs |-> <<"warning: enter API key">>,
     content_text |-> None, source_type |-> None,
     fetched |-> FALSE, fetch |-> NoOutcome,
     button_shown |-> FALSE,
     generate_called |-> FALSE, generate_model |-> "",
     response |-> NoResponse,
     prompt_content |-> <<>>,
     analysis |-> JNull, rendered |-> <<>>, metric_difficulty |-> JNull,
     metric_source |-> None, schedule |-> <<>>, crashed |-> FALSE]

\* what analyze_with_gemini stands at when the run does not reach it
NotAnalysed ==
    [result |-> JNull, msgs |-> <<>>, model |-> "", configured_key |-> <<>>,
     prompt_content |-> <<>>]

\* what the "if analysis:" block leaves when the run does not enter it
NotRendered ==
    [rendered |-> <<>>, metric_difficulty |-> JNull, metric_source |-> None,
     schedule |-> <<>>, crashed |-> FALSE]

\* tab1, tab2, tab3 in the order of the script
select_document(f, u, t, outcome) ==
    tab3_text(tab2_youtube(tab1_pdf(f), u, outcome), t)

(***************************************************************************)
(* Inputs                                                                  *)
(***************************************************************************)

\* number of consecutive years, from 2023, that datetime.now() is drawn from
YearSpan == 2

\* most pieces a URL handed to get_youtube_transcript is put together from
MaxUrlParts == 4

Dates ==
    {[y |-> y, m |-> m, d |-> d, hour |-> h] :
        y \in 2023..(2023 + YearSpan - 1), m \in 1..12, d \in 1..31, h \in {0, 23}}

ValidDates == {dt \in Dates : dt.d <= DaysInMonth(dt.y, dt.m)}

P_watch == <<"h", "t", "t", "p", "s", ":", "/", "/", "x", "/", "w", "a", "t", "c", "h">>
P_qv == <<"?", "v", "=">>
P_av == <<"&", "v", "=">>
P_id == <<"a", "b", "c", "1", "2", "3">>
P_t == <<"&", "t", "=", "5">>
P_short == <<"h", "t", "t", "p", "s", ":", "/", "/", "y", "o", "u", "t", "u", ".", "b", "e", "/">>
P_q == <<"?", "t", "=", "5">>

UrlPieces == {P_watch, P_qv, P_av, P_id, P_t, P_short, P_q}

RECURSIVE Cat(_)
Cat(parts) == IF parts = <<>> THEN <<>> ELSE Head(parts) \o Cat(Tail(parts))

\* every text made of at most MaxUrlParts pieces, the empty text included
Urls ==
    {Cat(ps) : ps \in UNION {[1..n -> UrlPieces] : n \in 0..MaxUrlParts}}

NotCalled ==
    [done |-> FALSE, text |-> None, error |-> None, called |-> FALSE,
     video_id |-> None]

(***************************************************************************)
(* generate_schedule on every start date and difficulty score              *)
(***************************************************************************)

AppIdle ==
    /\ api_key = <<>>
    /\ pdf_file = NoFile
    /\ yt_url = <<>>
    /\ raw_text = <<>>
    /\ page = StoppedPage

InitSchedule ==
    /\ start_date \in ValidDates
    /\ difficulty \in 1..10
    /\ schedule = <<>>
    /\ url = <<>>
    /\ yt_out = NotCalled
    /\ AppIdle

CallGenerateSchedule ==
    /\ schedule = <<>>
    /\ schedule' = generate_schedule(start_date, difficulty)
    /\ UNCHANGED <<start_date, difficulty, url, yt_out,
                   api_key, pdf_file, yt_url, raw_text, page>>

NextSchedule == CallGenerateSchedule

SpecSchedule == InitSchedule /\ [][NextSchedule]_vars

(***************************************************************************)
(* get_youtube_transcript on every URL                                     *)
(***************************************************************************)

InitUrl ==
    /\ url \in Urls
    /\ yt_out = NotCalled
    /\ start_date = [y |-> 2023, m |-> 1, d |-> 1, hour |-> 0]
    /\ difficulty = 1
    /\ schedule = <<>>
    /\ AppIdle

CallGetTranscript ==
    /\ ~yt_out.done
    /\ \E outcome \in TranscriptOutcomes :
          LET r == get_youtube_transcript(url, outcome)
          IN  yt_out' = [done |-> TRUE, text |-> r.text, error |-> r.error,
                         called |-> r.called, video_id |-> r.video_id]
    /\ UNCHANGED <<start_date, difficulty, schedule, url,
                   api_key, pdf_file, yt_url, raw_text, page>>

NextUrl == CallGetTranscript

SpecUrl == InitUrl /\ [][NextUrl]_vars

(***************************************************************************)
(* Properties of generate_schedule                                         *)
(***************************************************************************)

\* the day after a calendar date
NextDay(c) ==
    IF c.d < DaysInMonth(c.y, c.m) THEN [c EXCEPT !.d = c.d + 1]
    ELSE IF c.m < 12 THEN [y |-> c.y, m |-> c.m + 1, d |-> 1]
    ELSE [y |-> c.y + 1, m |-> 1, d |-> 1]

\* the calendar date n days after c, one day at a time
RECURSIVE PlusDays(_, _)
PlusDays(c, n) == IF n = 0 THEN c ELSE PlusDays(NextDay(c), n - 1)

\* the calendar date a "YYYY-MM-DD" text names
ReadDate(cs) ==
    LET f == Split(cs, <<"-">>)
    IN  [y |-> DigitsToNat(f[1]), m |-> DigitsToNat(f[2]), d |-> DigitsToNat(f[3])]

\* the number of days a "+N days" text names, -1 when it is not of that form
ReadInterval(cs) ==
    IF /\ Len(cs) >= 7
       /\ cs[1] = "+"
       /\ SubSeq(cs, Len(cs) - 4, Len(cs)) = <<" ", "d", "a", "y", "s">>
       /\ \A k \in 2..(Len(cs) - 5) : IsDigit(cs[k])
    THEN DigitsToNat(SubSeq(cs, 2, Len(cs) - 5))
    ELSE -1

\* C1: for every start date and every difficulty score in 1..10 the schedule
\* has exactly 6 entries, numbered 1..6 in order, whose day offsets are
\* 0, 1, 3, 7, 14, 30 whatever the score, and each entry's date is the start
\* date plus that entry's offset in days.
C1_SixEntriesFixedOffsets ==
    schedule # <<>> =>
        /\ Len(schedule) = 6
        /\ \A k \in 1..6 :
              /\ schedule[k].Review_Session = k
              /\ ReadInterval(schedule[k].Interval) = <<0, 1, 3, 7, 14, 30>>[k]
              /\ Len(schedule[k].Date) = 10
              /\ ReadDate(schedule[k].Date)
                   = PlusDays([y |-> start_date.y, m |-> start_date.m,
                               d |-> start_date.d],
                              <<0, 1, 3, 7, 14, 30>>[k])

\* a schedule planned late on 20 December 2023, whose last session falls in
\* the next year
C1_Witness ==
    /\ schedule # <<>>
    /\ start_date = [y |-> 2023, m |-> 12, d |-> 20, hour |-> 23]
    /\ difficulty = 9
    /\ schedule[6].Date = <<"2", "0", "2", "4", "-", "0", "1", "-", "1", "9">>

\* C2: session i (0-based) takes element i mod len(list) of the
\* high-difficulty list when the score is above 6 and of the standard list
\* when it is 6 or below, and never a technique of the list not selected.
C2_TechniqueByDifficulty ==
    schedule # <<>> =>
        LET chosen == IF difficulty >= 7 THEN methods_hard ELSE methods_easy
            other  == IF difficulty >= 7 THEN methods_easy ELSE methods_hard
        IN  \A k \in 1..Len(schedule) :
              /\ schedule[k].Method = chosen[((k - 1) % Len(chosen)) + 1]
              /\ \A j \in 1..Len(other) : schedule[k].Method # other[j]

\* a schedule for score 6, the last score of the standard list, whose fifth
\* session wraps around to the first technique
C2_Witness ==
    /\ schedule # <<>>
    /\ difficulty = 6
    /\ schedule[5].Method = "Review Summary"
    /\ schedule[4].Method = "Relate to other topics"


(***************************************************************************)
(* Properties of get_youtube_transcript                                    *)
(***************************************************************************)

\* the text of s after the first occurrence of p (p occurs in s)
AfterFirst(s, p) == Slice(s, Find(s, p, 1) + Len(p), Len(s))

\* the text of s before the first occurrence of p, all of s when p is absent
UpTo(s, p) == LET i == Find(s, p, 1) IN IF i = 0 THEN s ELSE Slice(s, 1, i - 1)

Chars_q_v_eq == <<"?", "v", "=">>

InvalidUrlReturned ==
    /\ ~yt_out.called
    /\ yt_out.video_id = None
    /\ yt_out.text = None
    /\ yt_out.error = Some("Invalid YouTube URL")

\* C6 as stated: a URL of shape ...?v=<id>&... gives the text after "?v=" up
\* to the next "&" or the end; otherwise the short form youtu.be/<id> gives the
\* text after "youtu.be/"; an input of neither shape gets the invalid-URL
\* error and the transcript provider is not called.
C6_AsStated ==
    yt_out.done =>
        IF Contains(url, Chars_q_v_eq)
        THEN /\ yt_out.called
             /\ yt_out.video_id = Some(UpTo(AfterFirst(url, Chars_q_v_eq), Chars_amp))
        ELSE IF Contains(url, Chars_youtu_be)
        THEN /\ yt_out.called
             /\ yt_out.video_id = Some(AfterFirst(url, Chars_youtu_be))
        ELSE InvalidUrlReturned

\* C6 amended: a URL containing "v=" anywhere gives the text after the first
\* "v=" up to the next "&", the next "v=" or the end; otherwise a URL
\* containing "youtu.be/" gives the text after the first "youtu.be/" up to the
\* next "youtu.be/" or the end; an input containing neither gets the
\* invalid-URL error and the transcript provider is not called.
C6_VideoIdBySubstring ==
    yt_out.done =>
        IF Contains(url, Chars_v_eq)
        THEN /\ yt_out.called
             /\ yt_out.video_id
                  = Some(UpTo(UpTo(AfterFirst(url, Chars_v_eq), Chars_v_eq), Chars_amp))
        ELSE IF Contains(url, Chars_youtu_be)
        THEN /\ yt_out.called
             /\ yt_out.video_id
                  = Some(UpTo(AfterFirst(url, Chars_youtu_be), Chars_youtu_be))
        ELSE InvalidUrlReturned

\* https://x/watch?t=5&v=abc123: v is not the first query parameter, and the
\* provider is asked for abc123
C6_Witness ==
    /\ yt_out.done
    /\ url = Cat(<<P_watch, P_q, P_av, P_id>>)
    /\ yt_out.called
    /\ yt_out.video_id = Some(P_id)


(***************************************************************************)
(* The application: widget values, and one script run per interaction      *)
(***************************************************************************)

ApiKeys == {<<>>, <<" ">>, <<"k", "e", "y">>}

PdfFiles ==
    {NoFile, PdfFile(FALSE, <<>>), PdfFile(TRUE, <<>>),
     PdfFile(TRUE, << <<"p", "d", "f">> >>)}

AppUrls == {<<>>, Cat(<<P_watch, P_qv, P_id, P_t>>), P_id}

RawTexts == {<<>>, <<" ">>, <<"n", "o", "t", "e", "s">>}

AppDates ==
    {[y |-> 2023, m |-> 2, d |-> 27, hour |-> 9],
     [y |-> 2024, m |-> 12, d |-> 31, hour |-> 23]}

\* "key": value with the key quoted as JSON writes it
Member(key, value) == <<"\"">> \o key \o <<"\"", ":">> \o value

\* the JSON object the prompt asks for, with the given difficulty_score member
\* (<<>> leaves the member out)
AnswerObject(score_member) ==
    <<"{">> \o Member(K_summary, <<"\"", "s", "\"">>) \o <<",">>
    \o (IF score_member = <<>> THEN <<>> ELSE score_member \o <<",">>)
    \o Member(K_estimated_study_time_minutes, <<"5">>) \o <<",">>
    \o Member(K_key_concepts,
              <<"[", "\"", "a", "\"", ",", "\"", "b", "\"", ",", "\"", "c", "\"", "]">>)
    \o <<",">> \o Member(K_learning_advice, <<"\"", "x", "\"">>) \o <<"}">>

Answer(score_chars) == AnswerObject(Member(K_difficulty_score, score_chars))

Chars_prose_before == <<"H", "e", "r", "e", ":", " ">>
Chars_prose_after == <<" ", "o", "k">>
Chars_sorry == <<"S", "o", "r", "r", "y">>

\* texts the model may answer with
ResponseTexts ==
    { Answer(<<"2">>),
      Chars_fence_json \o <<"\n">> \o Answer(<<"7">>) \o <<"\n">> \o Chars_fence,
      Chars_prose_before \o Answer(<<"2">>) \o Chars_prose_after,
      Answer(<<"1", "1">>),
      Answer(<<"\"", "7", "\"">>),
      AnswerObject(<<>>),
      <<"{", "}">>,
      Chars_sorry }

\* what one generate_content call can come to
GenerateOutcomes ==
    {NoResponse, [callable |-> TRUE, ok |-> FALSE, text |-> <<>>]}
    \cup {[callable |-> TRUE, ok |-> TRUE, text |-> t] : t \in ResponseTexts}

Init ==
    /\ AppIdle
    /\ start_date = [y |-> 2023, m |-> 1, d |-> 1, hour |-> 0]
    /\ difficulty = 1
    /\ schedule = <<>>
    /\ url = <<>>
    /\ yt_out = NotCalled

\* One run of the script from the top with the widget values (key, f, u, t),
\* as every interaction causes; clicked is what st.button returns if the run
\* reaches it.  The transcript provider, the model provider and the clock are
\* consulted only where the run reaches them.  A run cut short by st.stop
\* draws no tab, and a widget that is not drawn loses its value.  Each
\* "\E x \in {e}" names the value of e for the lines below it.
ScriptRun(key, f, u, t, clicked) ==
    IF key = <<>>
    THEN /\ page' = StoppedPage
         /\ api_key' = key
         /\ pdf_file' = NoFile
         /\ yt_url' = <<>>
         /\ raw_text' = <<>>
         /\ UNCHANGED <<start_date, difficulty, schedule, url, yt_out>>
    ELSE
    \E outcome \in (IF u # <<>> /\ ~extract_video_id(u).none
                    THEN TranscriptOutcomes ELSE {NoOutcome}) :
    \E doc \in {select_document(f, u, t, outcome)} :
    \E button \in {Truthy(doc.content_text)} :
    \E go \in {button /\ clicked} :
    \E g \in (IF go THEN GenerateOutcomes ELSE {NoResponse}) :
    \E an \in {IF go THEN analyze_with_gemini(doc.content_text.v, key, g)
               ELSE NotAnalysed} :
    \E show \in {go /\ JTruthy(an.result)} :
    \E now \in (IF show THEN AppDates ELSE {start_date}) :
    \E rn \in {IF show THEN render_analysis(an.result, doc.source_type, now)
               ELSE NotRendered} :
       /\ page' =
            [stopped |-> FALSE, clicked |-> clicked,
             msgs |-> doc.msgs \o an.msgs,
             content_text |-> doc.content_text, source_type |-> doc.source_type,
             fetched |-> doc.fetched,
             fetch |-> IF doc.fetched THEN outcome ELSE NoOutcome,
             button_shown |-> button,
             generate_called |-> go,
             generate_model |-> an.model,
             response |-> g,
             prompt_content |-> an.prompt_content,
             analysis |-> an.result,
             rendered |-> rn.rendered,
             metric_difficulty |-> rn.metric_difficulty,
             metric_source |-> rn.metric_source,
             schedule |-> rn.schedule,
             crashed |-> rn.crashed]
       /\ api_key' = key
       /\ pdf_file' = f
       /\ yt_url' = u
       /\ raw_text' = t
       /\ UNCHANGED <<start_date, difficulty, schedule, url, yt_out>>

\* the sidebar text_input is edited
SetApiKey ==
    \E k \in ApiKeys \ {api_key} : ScriptRun(k, pdf_file, yt_url, raw_text, FALSE)

\* a file is uploaded to, or removed from, the uploader of tab1
UploadPdf ==
    /\ ~page.stopped
    /\ \E f \in PdfFiles \ {pdf_file} : ScriptRun(api_key, f, yt_url, raw_text, FALSE)

\* the text_input of tab2 is edited
EnterUrl ==
    /\ ~page.stopped
    /\ \E u \in AppUrls \ {yt_url} : ScriptRun(api_key, pdf_file, u, raw_text, FALSE)

\* the text_area of tab3 is edited
EnterRawText ==
    /\ ~page.stopped
    /\ \E t \in RawTexts \ {raw_text} : ScriptRun(api_key, pdf_file, yt_url, t, FALSE)

\* the generate button, drawn by the last run, is pressed
PressGenerate ==
    /\ page.button_shown
    /\ ScriptRun(api_key, pdf_file, yt_url, raw_text, TRUE)

Next ==
    \/ SetApiKey
    \/ UploadPdf
    \/ EnterUrl
    \/ EnterRawText
    \/ PressGenerate

Spec == Init /\ [][Next]_vars


(***************************************************************************)
(* Properties of the application                                           *)
(***************************************************************************)

\* s.strip() for the whitespace the inputs can hold
RECURSIVE StripWs(_)
StripWs(cs) ==
    IF cs = <<>> THEN cs
    ELSE IF IsWs(Head(cs)) THEN StripWs(Tail(cs))
    ELSE IF IsWs(cs[Len(cs)]) THEN StripWs(SubSeq(cs, 1, Len(cs) - 1))
    ELSE cs

Shown(m) == \E i \in 1..Len(page.msgs) : page.msgs[i] = m

\* what json.loads made of the cleaned answer of the last generate_content call
LastParse == json_loads(clean_response(page.response.text))

AllStrings(xs) == \A i \in 1..Len(xs) : xs[i].t = "str"

\* the AnalysisResult schema: summary and learning_advice strings,
\* difficulty_score an integer in 1..10, estimated_study_time_minutes an
\* integer >= 0, key_concepts 3 to 5 strings
SchemaValid(v) ==
    /\ v.t = "dict"
    /\ HasKey(v, K_summary) /\ GetKey(v, K_summary).t = "str"
    /\ HasKey(v, K_difficulty_score)
    /\ GetKey(v, K_difficulty_score).t = "int"
    /\ GetKey(v, K_difficulty_score).n \in 1..10
    /\ HasKey(v, K_estimated_study_time_minutes)
    /\ GetKey(v, K_estimated_study_time_minutes).t = "int"
    /\ GetKey(v, K_estimated_study_time_minutes).n >= 0
    /\ HasKey(v, K_key_concepts)
    /\ GetKey(v, K_key_concepts).t = "list"
    /\ Len(GetKey(v, K_key_concepts).items) \in 3..5
    /\ AllStrings(GetKey(v, K_key_concepts).items)
    /\ HasKey(v, K_learning_advice) /\ GetKey(v, K_learning_advice).t = "str"

NothingRendered == page.rendered = <<>> /\ page.schedule = <<>>

\* C3: when the answer parses as JSON but violates the AnalysisResult schema,
\* analyze_with_gemini returns no result and reports the failure, and the run
\* renders nothing of the analysis and plans no schedule.
C3_SchemaViolationRejected ==
    (/\ page.generate_called
     /\ page.response.callable
     /\ page.response.ok
     /\ LastParse.ok
     /\ ~SchemaValid(LastParse.val))
    => /\ page.analysis = JNull
       /\ Shown("error: AI Analysis Failed")
       /\ NothingRendered

IngestionFailed ==
    \/ pdf_file.present /\ ~pdf_file.readable
    \/ yt_url # <<>> /\ ~(page.fetched /\ page.fetch.ok)

AnalysisFailed ==
    /\ page.generate_called
    /\ \/ ~page.response.callable
       \/ ~page.response.ok
       \/ ~LastParse.ok
       \/ ~SchemaValid(LastParse.val)

\* C4: in every run started by the generate button, a failed ingestion or a
\* failed analysis shows an error message and no later stage runs: no analysis
\* after a failed ingestion, nothing rendered and no schedule planned after
\* either.
C4_FailureHaltsTheRun ==
    page.clicked =>
        /\ IngestionFailed =>
              /\ Shown("error: Error reading PDF")
                    \/ Shown("error: Could not get video")
              /\ ~page.generate_called
              /\ NothingRendered
        /\ AnalysisFailed =>
              /\ Shown("error: AI Analysis Failed")
              /\ NothingRendered

\* C5: no transcript fetch and no generate_content call is made in a run
\* unless the API key, stripped of leading and trailing whitespace, is
\* non-empty.
C5_NoExternalCallWithoutKey ==
    (page.fetched \/ page.generate_called) => StripWs(api_key) # <<>>

\* C7: pasted text that is empty or only whitespace is never selected as the
\* document and never sent to analysis; other pasted text reaches analysis
\* unchanged.
C7_BlankRawTextIsNoContent ==
    ~page.stopped =>
        /\ StripWs(raw_text) = <<>> => page.source_type # Some("Raw Text")
        /\ (StripWs(raw_text) # <<>> /\ page.generate_called)
              => page.prompt_content = raw_text

\* C8: generate_content is called only with a model identifier that is
\* callable under the credential; when no model is callable there is no
\* call with a default identifier.
C8_OnlyResolvedModelUsed ==
    page.generate_called => page.response.callable

\* the highest index of s holding character c, 0 when there is none
LastIndexOf(s, c) ==
    LET hits == {i \in 1..Len(s) : s[i] = c}
    IN  IF hits = {} THEN 0 ELSE CHOOSE i \in hits : \A j \in hits : j <= i

NoBrace(s) == \A i \in 1..Len(s) : s[i] \notin {"{", "}"}

\* C9: an answer that is a valid JSON object with brace-free text before or
\* after it is parsed to the same result as the object alone.
C9_ObjectSlicedOutOfProse ==
    LET t == page.response.text
        i == Find(t, <<"{">>, 1)
        j == LastIndexOf(t, "}")
        obj == json_loads(Slice(t, i, j))
    IN  (/\ page.generate_called
         /\ page.response.callable
         /\ page.response.ok
         /\ i # 0
         /\ NoBrace(Slice(t, 1, i - 1))
         /\ NoBrace(Slice(t, j + 1, Len(t)))
         /\ obj.ok
         /\ obj.val.t = "dict")
        => page.analysis = obj.val

\* the input that wrote content_text last: raw text over video over PDF
LastWriter ==
    IF raw_text # <<>> THEN "Raw Text"
    ELSE IF yt_url # <<>> THEN "Video Transcript"
    ELSE IF pdf_file.present THEN "PDF Document"
    ELSE "none"

\* the text that input produced in the last run, None when it produced none
LastWriterText ==
    IF LastWriter = "Raw Text" THEN Some(raw_text)
    ELSE IF LastWriter = "Video Transcript"
         THEN (IF page.fetched /\ page.fetch.ok THEN Some(page.fetch.text) ELSE None)
    ELSE IF LastWriter = "PDF Document" /\ pdf_file.readable
         THEN Some(JoinPages(pdf_file.pages))
    ELSE None

\* C10: the document is the one of the last writer in the order PDF, video,
\* raw text; whenever analysis is invoked the text sent and the source tag
\* (the script's and the displayed one) are that input's; and an entered video
\* URL whose fetch fails leaves no content even when a PDF was read, so that
\* no analysis runs unless raw text is given too.
C10_LastWriterWins ==
    ~page.stopped =>
        /\ page.content_text = LastWriterText
        /\ page.button_shown <=> Truthy(LastWriterText)
        /\ page.generate_called =>
              /\ page.source_type = Some(LastWriter)
              /\ page.prompt_content = LastWriterText.v
        /\ ~page.metric_source.none => page.metric_source = Some(LastWriter)
        /\ (yt_url # <<>> /\ raw_text = <<>> /\ ~(page.fetched /\ page.fetch.ok))
              => ~page.generate_called

\* the button is pressed with a readable PDF and a video URL entered, the
\* transcript fetch of that run fails, and the run analyses nothing
C10_Witness ==
    /\ page.clicked
    /\ pdf_file.readable /\ pdf_file.pages # <<>>
    /\ yt_url # <<>>
    /\ raw_text = <<>>
    /\ page.fetched /\ ~page.fetch.ok
    /\ page.content_text = None
    /\ ~page.generate_called

=============================================================================
